---- MODULE Spec2Model ----
(***************************************************************************)
(* eigenpuls: the health-status registry of eigenpulsd.                    *)
(*                                                                         *)
(* The model covers the data model and the aggregation engine of           *)
(* eigenpuls/service/_base.py, the shared store and its lock of            *)
(* eigenpulsd/storage.py and the registry operations _store_update_worker  *)
(* and _store_update_config of eigenpulsd/api.py.                          *)
(*                                                                         *)
(* A caller is one server process.  The request handlers are coroutines    *)
(* without an await inside the registry operations, so inside one process  *)
(* they run one after the other; callers in different processes interleave *)
(* at their accesses to the shared store.  The store is the UltraDict      *)
(* created by init_store with shared_lock=True; it is modelled as a        *)
(* mapping with the get / set semantics the code relies on.                *)
(*                                                                         *)
(* Timestamps are positive integers read from a clock that never goes      *)
(* backwards; None is the unset value of an Optional field.                *)
(***************************************************************************)
EXTENDS Integers, Sequences, FiniteSets, TLC

\* ------------------------------------------------------------------------
\* Bounds of the model
\* ------------------------------------------------------------------------

\* Number of registry calls (upsertWorker, updateConfig) started in a run.
MaxOps == 3

\* Largest value the clock reaches; at this value time stands still.
MaxClock == 3

\* Number of worker reports of an aggregation run (length of the list).
MaxLen == 3

\* ------------------------------------------------------------------------
\* Data model (eigenpuls/service/_base.py)
\* ------------------------------------------------------------------------

None == -1

DEFAULT_MAX_RETRIES == 3
DEFAULT_TIMEOUT_SECONDS == 10
DEFAULT_INTERVAL_SECONDS == 10

ServiceMode == {"unknown", "starting", "running", "stopping", "stopped", "failed"}

ServiceHealth == {"unknown", "ok", "error"}

ServiceHealthWorkerPolicy == {"any", "all", "majority"}

\* ServiceStatusHealth(mode, status): one health report.
ServiceStatusHealth(m, st) ==
    [mode |-> m, status |-> st, details |-> "", stacktrace |-> None]

\* ServiceStatus(worker_name=...): the defaults of a new worker entry; the
\* default checked_at is the time of construction.
ServiceStatus(worker_name, t) ==
    [worker_name |-> worker_name,
     health |-> ServiceStatusHealth("unknown", "unknown"),
     retries |-> 0,
     checked_at |-> t,
     last_retry_at |-> None]

\* ServiceConfig(): the defaults, with the given policy.
ServiceConfig(policy) ==
    [type |-> "unknown",
     policy |-> policy,
     interval |-> DEFAULT_INTERVAL_SECONDS,
     timeout |-> DEFAULT_TIMEOUT_SECONDS,
     max_retries |-> DEFAULT_MAX_RETRIES]

\* Service(name=...): a fresh service.
Service(name) ==
    [name |-> name,
     config |-> ServiceConfig("all"),
     workers |-> << >>,
     first_running_at |-> None]

\* A search that finds nothing.
FindByNameNever(workers, worker_name) ==
    0

\* ServiceStatusList.find_by_name: the index of the first entry with that
\* name, 0 when there is none.
FindByName(workers, worker_name) ==
    LET hits == {i \in 1..Len(workers) : workers[i].worker_name = worker_name}
    IN  IF hits = {} THEN 0 ELSE CHOOSE i \in hits : \A j \in hits : i <= j

\* A variant of upsert that never looks for an existing entry.
UpsertAlwaysAppend(workers, status) ==
    Append(workers, status)

\* ServiceStatusList.upsert: an unnamed status is appended; a named one
\* replaces the entry of that name or is appended.
Upsert(workers, status) ==
    IF status.worker_name = ""
    THEN Append(workers, status)
    ELSE LET idx == FindByName(workers, status.worker_name)
         IN  IF idx = 0
             THEN Append(workers, status)
             ELSE [workers EXCEPT ![idx] = status]

\* ------------------------------------------------------------------------
\* Aggregation engine (ServiceResponse.from_service)
\* ------------------------------------------------------------------------

Statuses(workers) == [i \in 1..Len(workers) |-> workers[i].health.status]

Modes(workers) == [i \in 1..Len(workers) |-> workers[i].health.mode]

CheckedAts(workers) == [i \in 1..Len(workers) |-> workers[i].checked_at]

\* any(x == v for x in xs) and all(x == v for x in xs)
AnyIs(xs, v) == \E i \in 1..Len(xs) : xs[i] = v

AllAre(xs, v) == \A i \in 1..Len(xs) : xs[i] = v

\* sum(1 for x in xs if x == v)
RECURSIVE CountOf(_, _)
CountOf(xs, v) ==
    IF xs = << >> THEN 0
    ELSE (IF Head(xs) = v THEN 1 ELSE 0) + CountOf(Tail(xs), v)

\* A maximum that takes the first timestamp whatever the others are.
MaxOfFirst(ts) == 1

\* max(...) and min(...) of a non-empty sequence of timestamps
MaxOf(ts) == CHOOSE i \in 1..Len(ts) : \A j \in 1..Len(ts) : ts[j] <= ts[i]

MinOf(ts) == CHOOSE i \in 1..Len(ts) : \A j \in 1..Len(ts) : ts[i] <= ts[j]

\* The middle element of the sorted timestamps, for an odd count.
MiddleOf(ts) ==
    LET k == Len(ts) \div 2
        mid == CHOOSE i \in 1..Len(ts) :
                   /\ Cardinality({j \in 1..Len(ts) : ts[j] < ts[i]}) <= k
                   /\ Cardinality({j \in 1..Len(ts) : ts[j] > ts[i]}) <= k
    IN  ts[mid]

\* A median that takes the lower of the two middle values of an even count
\* instead of adding them.
MedianLower(ts) ==
    LET k == (Len(ts) - 1) \div 2
        mid == CHOOSE i \in 1..Len(ts) :
                   /\ Cardinality({j \in 1..Len(ts) : ts[j] < ts[i]}) <= k
                   /\ Cardinality({j \in 1..Len(ts) : ts[j] > ts[i]}) <= Len(ts) - 1 - k
    IN  [raised |-> FALSE, value |-> ts[mid]]

\* statistics.median over datetimes: the middle value of an odd count; for
\* an even count it adds the two middle datetimes, which raises TypeError.
Median(ts) ==
    IF Len(ts) % 2 = 1
    THEN [raised |-> FALSE, value |-> MiddleOf(ts)]
    ELSE [raised |-> TRUE, value |-> None]

\* Counter(modes).most_common(1)[0][0]: the most frequent mode; among
\* equally frequent ones the one counted first.
MostCommon(modes) ==
    LET best == CHOOSE i \in 1..Len(modes) :
                    /\ \A j \in 1..Len(modes) :
                           CountOf(modes, modes[j]) <= CountOf(modes, modes[i])
                    /\ \A j \in 1..(i - 1) :
                           CountOf(modes, modes[j]) < CountOf(modes, modes[i])
    IN  modes[best]

\* Policy any with the test of policy all.
StatusAnyAsAll(statuses) ==
    IF AllAre(statuses, "ok") THEN "ok"
    ELSE IF AnyIs(statuses, "error") THEN "error"
    ELSE "unknown"

\* Policy all with the test of policy any.
StatusAllAsAny(statuses) ==
    IF AnyIs(statuses, "ok") THEN "ok"
    ELSE IF AnyIs(statuses, "error") THEN "error"
    ELSE "unknown"

\* The status rules of the three policies (lines 135, 140, 148).
StatusAny(statuses) ==
    IF AnyIs(statuses, "ok") THEN "ok"
    ELSE IF AnyIs(statuses, "error") THEN "error"
    ELSE "unknown"

StatusAll(statuses) ==
    IF AllAre(statuses, "ok") THEN "ok"
    ELSE IF AnyIs(statuses, "error") THEN "error"
    ELSE "unknown"

\* ok_count > total / 2 is a comparison with a float; it is the same as
\* 2 * ok_count > total.
StatusMajority(statuses) ==
    LET ok_count == CountOf(statuses, "ok")
        err_count == CountOf(statuses, "error")
        total == Len(statuses)
    IN  IF 2 * ok_count > total THEN "ok"
        ELSE IF 2 * err_count > total THEN "error"
        ELSE "unknown"

\* The mode rule of policy any with RUNNING only when every worker runs.
ModeAnyAsAll(modes) ==
    IF AllAre(modes, "running") THEN "running"
    ELSE IF AnyIs(modes, "starting") THEN "starting"
    ELSE IF AnyIs(modes, "stopping") THEN "stopping"
    ELSE IF AnyIs(modes, "stopped") THEN "stopped"
    ELSE IF AnyIs(modes, "failed") THEN "failed"
    ELSE "unknown"

\* The mode rule of policy all with STOPPED as soon as one worker is stopped.
ModeAllAnyStopped(modes) ==
    IF AllAre(modes, "running") THEN "running"
    ELSE IF AnyIs(modes, "starting") THEN "starting"
    ELSE IF AnyIs(modes, "stopping") THEN "stopping"
    ELSE IF AnyIs(modes, "stopped") THEN "stopped"
    ELSE IF AnyIs(modes, "failed") THEN "failed"
    ELSE "unknown"

\* The mode rules of policies any and all (lines 137, 141).
ModeAny(modes) ==
    IF AnyIs(modes, "running") THEN "running"
    ELSE IF AnyIs(modes, "starting") THEN "starting"
    ELSE IF AnyIs(modes, "stopping") THEN "stopping"
    ELSE IF AnyIs(modes, "stopped") THEN "stopped"
    ELSE IF AnyIs(modes, "failed") THEN "failed"
    ELSE "unknown"

ModeAll(modes) ==
    IF AllAre(modes, "running") THEN "running"
    ELSE IF AnyIs(modes, "starting") THEN "starting"
    ELSE IF AnyIs(modes, "stopping") THEN "stopping"
    ELSE IF AllAre(modes, "stopped") THEN "stopped"
    ELSE IF AnyIs(modes, "failed") THEN "failed"
    ELSE "unknown"

\* The values of last_checked_at, agg_status and agg_mode before the try
\* block (lines 125-128).
AggregateInitial ==
    [raised |-> FALSE, last_checked_at |-> None,
     agg_status |-> "unknown", agg_mode |-> "unknown"]

\* The try block (lines 130-153): the values of the three variables when
\* control leaves it, and whether it left it by an exception.  Under policy
\* majority the median is the first statement, so when it raises the other
\* two variables still hold their initial values.
AggregateTry(service) ==
    LET workers == service.workers
        statuses == Statuses(workers)
        modes == Modes(workers)
        policy == service.config.policy
    IN  IF policy = "any"
        THEN [raised |-> FALSE,
              last_checked_at |-> CheckedAts(workers)[MaxOf(CheckedAts(workers))],
              agg_status |-> StatusAny(statuses),
              agg_mode |-> ModeAny(modes)]
        ELSE IF policy = "all"
        THEN [raised |-> FALSE,
              last_checked_at |-> CheckedAts(workers)[MinOf(CheckedAts(workers))],
              agg_status |-> StatusAll(statuses),
              agg_mode |-> ModeAll(modes)]
        ELSE IF policy = "majority"
        THEN LET med == Median(CheckedAts(workers))
             IN  IF med.raised
                 THEN [AggregateInitial EXCEPT !.raised = TRUE]
                 ELSE [raised |-> FALSE,
                       last_checked_at |-> med.value,
                       agg_status |-> StatusMajority(statuses),
                       agg_mode |-> MostCommon(modes)]
        ELSE [AggregateInitial EXCEPT !.raised = TRUE]

\* The except clause (lines 155-158).
AggregateExcept(r) ==
    [r EXCEPT !.last_checked_at = None,
              !.agg_status = "unknown",
              !.agg_mode = "unknown"]

\* Lines 125-158: the aggregate of a service.
Aggregate(service) ==
    IF service.workers # << >>
    THEN LET r == AggregateTry(service)
         IN  IF r.raised THEN AggregateExcept(r) ELSE r
    ELSE AggregateInitial

\* ServiceResponse.from_service, computed at time t.
FromService(service, t) ==
    LET agg == Aggregate(service)
    IN  [name |-> service.name,
         config |-> service.config,
         workers |-> service.workers,
         first_running_at |-> service.first_running_at,
         timestamp_now |-> t,
         last_checked_at |-> agg.last_checked_at,
         since_last_check |->
             IF agg.last_checked_at # None THEN t - agg.last_checked_at ELSE None,
         aggregate_status |-> agg.agg_status,
         aggregate_mode |-> agg.agg_mode,
         uptime |->
             IF service.first_running_at # None
             THEN t - service.first_running_at ELSE None,
         server_uptime_seconds |-> None]

\* ------------------------------------------------------------------------
\* Stored documents (model_dump / model_validate)
\* ------------------------------------------------------------------------

\* A dict without keys, and d with d[k] = v.
EmptyDict == [k \in {} |-> None]

\* A write that keeps the value of a key the dict already has.
DictSetIfAbsent(d, k, v) == [n \in DOMAIN d \cup {k} |-> IF n \in DOMAIN d THEN d[n] ELSE v]

DictSet(d, k, v) == [n \in DOMAIN d \cup {k} |-> IF n = k THEN v ELSE d[n]]

\* Service.model_dump(): the dict of the fields of a Service.
ModelDump(svc) ==
    [name |-> svc.name,
     config |-> svc.config,
     workers |-> svc.workers,
     first_running_at |-> svc.first_running_at]

\* What Service.model_validate accepts: every enum field holds a member of
\* its enum.
ValidDocument(data) ==
    /\ data.config.policy \in ServiceHealthWorkerPolicy
    /\ \A i \in 1..Len(data.workers) :
           /\ data.workers[i].health.mode \in ServiceMode
           /\ data.workers[i].health.status \in ServiceHealth

\* Service.model_validate(data): the Service of a stored dict, or a
\* ValidationError.
ModelValidate(data) ==
    IF ValidDocument(data)
    THEN [raised |-> FALSE,
          value |-> [name |-> data.name,
                     config |-> data.config,
                     workers |-> data.workers,
                     first_running_at |-> data.first_running_at]]
    ELSE [raised |-> TRUE, value |-> Service(data.name)]

\* A load that takes the stored document as it is, without validating it.
LoadServiceUnchecked(raw, service_name) ==
    IF service_name \in DOMAIN raw
    THEN [name |-> raw[service_name].name,
          config |-> raw[service_name].config,
          workers |-> raw[service_name].workers,
          first_running_at |-> raw[service_name].first_running_at]
    ELSE Service(service_name)

\* Lines 163-170 and 199-208: the stored service of that name, or a fresh
\* one when there is none or the stored one does not validate.
LoadService(raw, service_name) ==
    IF service_name \in DOMAIN raw
    THEN LET v == ModelValidate(raw[service_name])
         IN  IF v.raised THEN Service(service_name) ELSE v.value
    ELSE Service(service_name)

\* ------------------------------------------------------------------------
\* Registry operations on one service (eigenpulsd/api.py)
\* ------------------------------------------------------------------------

\* Setting first_running_at on every report of mode running.
FirstRunningSetAlways(first_running_at, health, now) ==
    IF health.mode = "running" THEN now ELSE first_running_at

\* Lines 182-183: set first_running_at when a worker reports running and
\* it is unset.
FirstRunningSet(first_running_at, health, now) ==
    IF health.mode = "running" /\ first_running_at = None
    THEN now
    ELSE first_running_at

\* Leaving first_running_at alone when no worker is running.
FirstRunningKeep(first_running_at, workers) ==
    first_running_at

\* Lines 185-187: clear first_running_at when no worker is running.
FirstRunningClear(first_running_at, workers) ==
    LET any_running == AnyIs(Modes(workers), "running")
    IN  IF ~any_running THEN None ELSE first_running_at

\* An upsert that moves the entry it replaces to the end of the list.
UpdateWorkerSvcReorder(svc, worker_name, health, now) ==
    LET idx == FindByName(svc.workers, worker_name)
        old == IF idx = 0 THEN ServiceStatus(worker_name, now) ELSE svc.workers[idx]
        status == [old EXCEPT !.health = health, !.checked_at = now]
        others == SelectSeq(svc.workers, LAMBDA e : e.worker_name # worker_name)
        workers == Append(others, status)
        set == FirstRunningSet(svc.first_running_at, health, now)
    IN  [svc EXCEPT !.workers = workers,
                    !.first_running_at = FirstRunningClear(set, workers)]

\* Lines 171-187 of _store_update_worker.  svc.workers is a model object
\* and always true, so line 178 is never taken.  When find_by_name finds an
\* entry, status is that very entry of the list: the assignments of lines
\* 175-176 change the list in place before upsert runs.
UpdateWorkerSvc(svc, worker_name, health, now) ==
    LET idx == FindByName(svc.workers, worker_name)
        old == IF idx = 0 THEN ServiceStatus(worker_name, now) ELSE svc.workers[idx]
        status == [old EXCEPT !.health = health, !.checked_at = now]
        inplace == IF idx = 0 THEN svc.workers
                   ELSE [svc.workers EXCEPT ![idx] = status]
        workers == Upsert(inplace, status)
        set == FirstRunningSet(svc.first_running_at, health, now)
    IN  [svc EXCEPT !.workers = workers,
                    !.first_running_at = FirstRunningClear(set, workers)]

\* An update of the config that starts from a fresh service.
UpdateConfigFresh(svc, config) ==
    [Service(svc.name) EXCEPT !.config = config]

\* Line 209 of _store_update_config.
UpdateConfigSvc(svc, config) ==
    [svc EXCEPT !.config = config]

\* A response computed from a fresh service instead of the updated one.
ComputeServiceResponseFresh(svc, t) ==
    FromService(Service(svc.name), t)

\* _compute_service_response: the dict of the response, computed at time t.
ComputeServiceResponse(svc, t) ==
    FromService(svc, t)

\* ------------------------------------------------------------------------
\* Inputs
\* ------------------------------------------------------------------------

\* The server processes that share the store.
Callers == {"p1", "p2"}

NoCaller == "none"

ServiceNames == {"db"}

\* Worker names of the reports.
WorkerNames == {"w1", "w2"}

WorkerInputs == WorkerNames

HealthInputs ==
    {ServiceStatusHealth("running", "ok"),
     ServiceStatusHealth("stopped", "error")}

ConfigInputs == {ServiceConfig(p) : p \in ServiceHealthWorkerPolicy}

\* Names of the workers of an aggregation run, in the order of their reports.
AggWorkerNames == <<"w1", "w2", "w3", "w4", "w5", "w6">>

AggHealthInputs ==
    {ServiceStatusHealth(m, st) : m \in ServiceMode, st \in ServiceHealth}

\* ------------------------------------------------------------------------
\* State
\* ------------------------------------------------------------------------

VARIABLES
    services,       \* app_data["services"]: name -> dumped Service
    responses,      \* app_data["responses"]: name -> dumped ServiceResponse
    lockOwner,      \* the caller inside `with lock:` of the store, or NoCaller
    clock,          \* the current time
    pc,             \* pc[c]: where caller c is in its call
    arg,            \* arg[c]: the arguments of the call of c
    now,            \* now[c]: the local `now` of _store_update_worker
    raw,            \* raw[c]: the local `raw` read from the store
    svc,            \* svc[c]: the local `svc`
    ops,            \* number of calls started
    lastHealth,     \* <<service, worker>> -> health of the report that took the lock last
    lastConfig,     \* service -> config of the updateConfig that took the lock last
    lastMut,        \* service -> the last mutation written to it
    aggService,     \* the service of an aggregation run
    aggResponse,    \* its response
    ret,            \* ret[c]: what the last call of c returned or raised
    cred,           \* cred[c]: the bearer credential of the request of c
    expected,       \* the secret _get_expected_apikey returns, "" when none
    ultraDict,      \* whether the UltraDict class could be imported
    server_start,   \* app_data["server_start"]: the start time of the server, or None
    written,        \* the response documents written to the cache, in order
    seen            \* seen[c]: Len(written) when the read of c began

storeVars == <<services, responses, lockOwner>>
callVars == <<pc, arg, now, raw, svc, ops>>
histVars == <<lastHealth, lastConfig, lastMut>>
aggVars == <<aggService, aggResponse>>
auxVars == <<ret, cred, expected, ultraDict, server_start, written, seen>>
vars == <<services, responses, lockOwner, clock, pc, arg, now, raw, svc, ops,
          lastHealth, lastConfig, lastMut, aggService, aggResponse,
          ret, cred, expected, ultraDict, server_start, written, seen>>

\* app_startup (lines 26-36) stores the start time of the server once.
ServerStart == 1

\* No call has returned yet.
NoReturn == [kind |-> "none", value |-> FromService(Service(""), 1)]

\* A request without an Authorization header.
NoCredentials == [scheme |-> "", credentials |-> ""]

NoArg ==
    [service_name |-> "", worker_name |-> "",
     health |-> ServiceStatusHealth("unknown", "unknown"),
     config |-> ServiceConfig("all")]

Init ==
    /\ services = EmptyDict
    /\ responses = EmptyDict
    /\ lockOwner = NoCaller
    /\ clock = 1
    /\ pc = [c \in Callers |-> "idle"]
    /\ arg = [c \in Callers |-> NoArg]
    /\ now = [c \in Callers |-> None]
    /\ raw = [c \in Callers |-> EmptyDict]
    /\ svc = [c \in Callers |-> Service("")]
    /\ ops = 0
    /\ lastHealth = EmptyDict
    /\ lastConfig = EmptyDict
    /\ lastMut = EmptyDict
    /\ aggService = Service("db")
    /\ aggResponse = FromService(Service("db"), 1)
    /\ ret = [c \in Callers |-> NoReturn]
    /\ cred = [c \in Callers |-> NoCredentials]
    /\ expected = ""
    /\ ultraDict = TRUE
    /\ server_start = ServerStart
    /\ written = << >>
    /\ seen = [c \in Callers |-> 0]

\* The last mutation written to service s was a report of the same health
\* for the same worker.
SameAsLast(s, worker_name, health) ==
    /\ s \in DOMAIN lastMut
    /\ lastMut[s].kind = "worker"
    /\ lastMut[s].worker_name = worker_name
    /\ lastMut[s].health = health

\* ------------------------------------------------------------------------
\* The clock and the store lock (eigenpulsd/storage.py)
\* ------------------------------------------------------------------------

\* datetime.now(timezone.utc): the times a read of the clock can return.
ClockReads == {t \in {clock, clock + 1} : t <= MaxClock}

\* A store object without a lock attribute.
StoreLacksLock == FALSE

\* init_store creates the store with shared_lock=True, so the store object
\* has a lock and with_store_lock takes the branch `with lock:`.
StoreHasLock == TRUE

\* An entry that does not wait for the caller inside.
LockEnterNoWait(c) ==
    IF StoreHasLock
    THEN lockOwner' = c
    ELSE UNCHANGED lockOwner

\* with_store_lock, entry: `with lock:` blocks while another caller is
\* inside; without a lock the body runs unguarded.
LockEnter(c) ==
    IF StoreHasLock
    THEN /\ lockOwner = NoCaller
         /\ lockOwner' = c
    ELSE UNCHANGED lockOwner

\* An exit that keeps the lock.
LockExitKeeps(c) ==
    UNCHANGED lockOwner

\* with_store_lock, exit.
LockExit(c) ==
    IF StoreHasLock
    THEN lockOwner' = NoCaller
    ELSE UNCHANGED lockOwner

\* ------------------------------------------------------------------------
\* _store_update_worker (api.py 159-193)
\* ------------------------------------------------------------------------

\* Line 160: the call starts and takes its timestamp, before the lock.
UpdateWorkerCall(c) ==
    /\ pc[c] = "idle"
    /\ ops < MaxOps
    /\ \E s \in ServiceNames, w \in WorkerInputs, h \in HealthInputs, t \in ClockReads :
           /\ arg' = [arg EXCEPT ![c] = [NoArg EXCEPT !.service_name = s,
                                                      !.worker_name = w,
                                                      !.health = h]]
           /\ now' = [now EXCEPT ![c] = t]
           /\ clock' = t
    /\ pc' = [pc EXCEPT ![c] = "uw_lock"]
    /\ ops' = ops + 1
    /\ UNCHANGED <<storeVars, raw, svc, histVars, aggVars>>

\* Lines 161-162: enter the guarded section and read the services of the
\* store.
UpdateWorkerLock(c) ==
    /\ pc[c] = "uw_lock"
    /\ LockEnter(c)
    /\ raw' = [raw EXCEPT ![c] = services]
    /\ pc' = [pc EXCEPT ![c] = "uw_write"]
    /\ IF arg[c].worker_name # ""
       THEN lastHealth' = DictSet(lastHealth,
                                  <<arg[c].service_name, arg[c].worker_name>>,
                                  arg[c].health)
       ELSE UNCHANGED lastHealth
    /\ UNCHANGED <<services, responses, clock, arg, now, svc, ops,
                   lastConfig, lastMut, aggVars>>

\* Lines 163-189: load or create the service, upsert the worker, apply the
\* first_running_at rule and write the services back.
UpdateWorkerWrite(c) ==
    /\ pc[c] = "uw_write"
    /\ LET s == arg[c].service_name
           new == UpdateWorkerSvc(LoadService(raw[c], s), arg[c].worker_name,
                                  arg[c].health, now[c])
       IN  /\ svc' = [svc EXCEPT ![c] = new]
           /\ services' = DictSet(raw[c], s, ModelDump(new))
           /\ lastMut' = DictSet(lastMut, s,
                                 [kind |-> "worker",
                                  worker_name |-> arg[c].worker_name,
                                  health |-> arg[c].health,
                                  repeated |-> SameAsLast(s, arg[c].worker_name,
                                                          arg[c].health)])
    /\ pc' = [pc EXCEPT ![c] = "uw_cache"]
    /\ UNCHANGED <<responses, lockOwner, clock, arg, now, raw, ops,
                   lastHealth, lastConfig, aggVars>>

\* Lines 191-192: write the response of the service into the cache.
UpdateWorkerCache(c) ==
    /\ pc[c] = "uw_cache"
    /\ \E t \in ClockReads :
           /\ clock' = t
           /\ responses' = DictSet(responses, arg[c].service_name,
                                   ComputeServiceResponse(svc[c], t))
    /\ pc' = [pc EXCEPT ![c] = "uw_unlock"]
    /\ UNCHANGED <<services, lockOwner, arg, now, raw, svc, ops, histVars, aggVars>>

\* Line 193: leave the guarded section and return.
UpdateWorkerReturn(c) ==
    /\ pc[c] = "uw_unlock"
    /\ LockExit(c)
    /\ pc' = [pc EXCEPT ![c] = "idle"]
    /\ arg' = [arg EXCEPT ![c] = NoArg]
    /\ now' = [now EXCEPT ![c] = None]
    /\ raw' = [raw EXCEPT ![c] = EmptyDict]
    /\ svc' = [svc EXCEPT ![c] = Service("")]
    /\ UNCHANGED <<services, responses, clock, ops, histVars, aggVars>>

\* ------------------------------------------------------------------------
\* _store_update_config (api.py 196-215)
\* ------------------------------------------------------------------------

\* Lines 197-198: the call starts by entering the guarded section, and reads
\* the services of the store.
UpdateConfigLock(c) ==
    /\ pc[c] = "idle"
    /\ ops < MaxOps
    /\ LockEnter(c)
    /\ \E s \in ServiceNames, cfg \in ConfigInputs :
           /\ arg' = [arg EXCEPT ![c] = [NoArg EXCEPT !.service_name = s,
                                                      !.config = cfg]]
           /\ lastConfig' = DictSet(lastConfig, s, cfg)
    /\ raw' = [raw EXCEPT ![c] = services]
    /\ pc' = [pc EXCEPT ![c] = "uc_write"]
    /\ ops' = ops + 1
    /\ UNCHANGED <<services, responses, clock, now, svc, lastHealth, lastMut, aggVars>>

\* Lines 199-211: load or create the service, replace its config and write
\* the services back.
UpdateConfigWrite(c) ==
    /\ pc[c] = "uc_write"
    /\ LET s == arg[c].service_name
           new == UpdateConfigSvc(LoadService(raw[c], s), arg[c].config)
       IN  /\ svc' = [svc EXCEPT ![c] = new]
           /\ services' = DictSet(raw[c], s, ModelDump(new))
           /\ lastMut' = DictSet(lastMut, s,
                                 [kind |-> "config",
                                  worker_name |-> "",
                                  health |-> NoArg.health,
                                  repeated |-> FALSE])
    /\ pc' = [pc EXCEPT ![c] = "uc_cache"]
    /\ UNCHANGED <<responses, lockOwner, clock, arg, now, raw, ops,
                   lastHealth, lastConfig, aggVars>>

\* Lines 213-214: write the response of the service into the cache.
UpdateConfigCache(c) ==
    /\ pc[c] = "uc_cache"
    /\ \E t \in ClockReads :
           /\ clock' = t
           /\ responses' = DictSet(responses, arg[c].service_name,
                                   ComputeServiceResponse(svc[c], t))
    /\ pc' = [pc EXCEPT ![c] = "uc_unlock"]
    /\ UNCHANGED <<services, lockOwner, arg, now, raw, svc, ops, histVars, aggVars>>

\* Line 215: leave the guarded section and return.
UpdateConfigReturn(c) ==
    /\ pc[c] = "uc_unlock"
    /\ LockExit(c)
    /\ pc' = [pc EXCEPT ![c] = "idle"]
    /\ arg' = [arg EXCEPT ![c] = NoArg]
    /\ raw' = [raw EXCEPT ![c] = EmptyDict]
    /\ svc' = [svc EXCEPT ![c] = Service("")]
    /\ UNCHANGED <<services, responses, clock, now, ops, histVars, aggVars>>

\* ------------------------------------------------------------------------
\* The registry under concurrent callers
\* ------------------------------------------------------------------------

Next ==
    \E c \in Callers :
        \/ UpdateWorkerCall(c) /\ UNCHANGED auxVars
        \/ UpdateWorkerLock(c) /\ UNCHANGED auxVars
        \/ UpdateWorkerWrite(c) /\ UNCHANGED auxVars
        \/ UpdateWorkerCache(c) /\ UNCHANGED auxVars
        \/ UpdateWorkerReturn(c) /\ UNCHANGED auxVars
        \/ UpdateConfigLock(c) /\ UNCHANGED auxVars
        \/ UpdateConfigWrite(c) /\ UNCHANGED auxVars
        \/ UpdateConfigCache(c) /\ UNCHANGED auxVars
        \/ UpdateConfigReturn(c) /\ UNCHANGED auxVars

Spec == Init /\ [][Next]_vars

\* ------------------------------------------------------------------------
\* Aggregation runs: one caller reports workers one after the other and
\* sets the policy; the response is computed after every step.
\* ------------------------------------------------------------------------

\* The time of the response of an aggregation run: after the last report.
AggNow(service) == Len(service.workers) + 1

\* A report of a new worker: upsertWorker followed by toResponse.
AggReport ==
    /\ Len(aggService.workers) < MaxLen
    /\ \E h \in AggHealthInputs :
           LET n == Len(aggService.workers) + 1
               new == UpdateWorkerSvc(aggService, AggWorkerNames[n], h, n)
           IN  /\ aggService' = new
               /\ aggResponse' = FromService(new, AggNow(new))
    /\ UNCHANGED <<storeVars, clock, callVars, histVars>>

\* updateConfig followed by toResponse.
AggSetPolicy ==
    /\ \E cfg \in ConfigInputs :
           LET new == UpdateConfigSvc(aggService, cfg)
           IN  /\ aggService' = new
               /\ aggResponse' = FromService(new, AggNow(new))
    /\ UNCHANGED <<storeVars, clock, callVars, histVars>>

NextAgg ==
    \/ AggReport /\ UNCHANGED auxVars
    \/ AggSetPolicy /\ UNCHANGED auxVars

SpecAgg == Init /\ [][NextAgg]_vars

\* ------------------------------------------------------------------------
\* Malformed records: the store outlives the processes, so a record may have
\* been left by a writer whose documents this version does not validate.
\* One caller mutates the registry; between its calls a record may be
\* replaced by a malformed one.
\* ------------------------------------------------------------------------

HealCallers == {"p1"}

\* Documents of service s that Service.model_validate rejects: the stored
\* one with a policy that is no member of the enum, a fresh one with such a
\* policy, and one with a worker whose mode is no member of the enum.
MalformedDocs(s) ==
    {[ModelDump(Service(s)) EXCEPT !.config.policy = "bogus"],
     [ModelDump(Service(s)) EXCEPT
          !.workers = <<[ServiceStatus("w1", 1) EXCEPT !.health.mode = "bogus"]>>]}
    \cup (IF s \in DOMAIN services
          THEN {[services[s] EXCEPT !.config.policy = "bogus"]}
          ELSE {})

\* A record of the store is replaced by a malformed one while no caller is
\* inside the guarded section.
Corrupt ==
    /\ lockOwner = NoCaller
    /\ \E s \in ServiceNames :
           \E d \in MalformedDocs(s) :
               services' = DictSet(services, s, d)
    /\ UNCHANGED <<responses, lockOwner, clock, callVars, histVars, aggVars>>

NextHeal ==
    \/ \E c \in HealCallers :
           \/ UpdateWorkerCall(c) /\ UNCHANGED auxVars
           \/ UpdateWorkerLock(c) /\ UNCHANGED auxVars
           \/ UpdateWorkerWrite(c) /\ UNCHANGED auxVars
           \/ UpdateWorkerCache(c) /\ UNCHANGED auxVars
           \/ UpdateWorkerReturn(c) /\ UNCHANGED auxVars
           \/ UpdateConfigLock(c) /\ UNCHANGED auxVars
           \/ UpdateConfigWrite(c) /\ UNCHANGED auxVars
           \/ UpdateConfigCache(c) /\ UNCHANGED auxVars
           \/ UpdateConfigReturn(c) /\ UNCHANGED auxVars
    \/ Corrupt /\ UNCHANGED auxVars

SpecHeal == Init /\ [][NextHeal]_vars

\* ------------------------------------------------------------------------
\* The read path (api.py 225-271 and 284-292): one process mutates the
\* registry while another reads it.  A cache entry may be missing or fail
\* validation, as after a restart with a cache left by another version.
\* Time advances at the clock reads of the mutations; a reader gets the
\* time reached so far.
\* ------------------------------------------------------------------------

Writers == {"p1"}

Readers == {"p2"}

\* _get_uptime_seconds at time t: max(0.0, time.time() - started).
GetUptimeSeconds(t) == IF t > ServerStart THEN t - ServerStart ELSE 0

DictDel(d, k) == [n \in DOMAIN d \ {k} |-> d[n]]

\* What ServiceResponse.model_validate accepts.
ValidResponse(doc) ==
    /\ ValidDocument(doc)
    /\ doc.aggregate_status \in ServiceHealth
    /\ doc.aggregate_mode \in ServiceMode

\* A lookup that finds no service.
StoreGetServiceNone(data, name) ==
    [found |-> FALSE, value |-> Service(name)]

\* _store_get_service, lines 135-141: None when there is no record of that
\* name or the record does not validate.
StoreGetService(data, name) ==
    IF name \in DOMAIN data /\ ~ModelValidate(data[name]).raised
    THEN [found |-> TRUE, value |-> ModelValidate(data[name]).value]
    ELSE [found |-> FALSE, value |-> Service(name)]

\* A reader that stores the response it recomputed.
CacheAfterReadStoring(docs, name, resp) == DictSet(docs, name, resp)

\* Lines 262-271 and 240-246: the cache after a reader has recomputed the
\* response resp of service name; the reader does not write it.
CacheAfterRead(docs, name, resp) == docs

\* The documents of docs that validate as responses (lines 231-238).
ValidResponses(docs) ==
    [n \in {k \in DOMAIN docs : ValidResponse(docs[k])} |-> docs[n]]

\* The services of data that validate (lines 118-123).
ValidServices(data) ==
    [n \in {k \in DOMAIN data : ~ModelValidate(data[k]).raised} |->
         ModelValidate(data[n]).value]

\* Setting server_uptime_seconds on a response.
WithUptime(resp, uptime) == [resp EXCEPT !.server_uptime_seconds = uptime]

\* The reader is back at rest.
ReadDone(c) ==
    /\ pc' = [pc EXCEPT ![c] = "idle"]
    /\ arg' = [arg EXCEPT ![c] = NoArg]
    /\ raw' = [raw EXCEPT ![c] = EmptyDict]

\* with_store_lock around one read of the store (_store_get_response,
\* _store_get_responses, _store_get_service, _store_get_services,
\* _store_get_server_start): the section is entered when no other caller is
\* inside, and is left in the same step.
WithStoreLockRead(c) ==
    /\ StoreHasLock => lockOwner = NoCaller
    /\ UNCHANGED lockOwner

\* A return that stamps the response with the time of the read.
ReturnedRestamped(c, resp) ==
    ret' = [ret EXCEPT ![c] =
                [kind |-> "response",
                 value |-> [WithUptime(resp, GetUptimeSeconds(clock))
                                EXCEPT !.timestamp_now = clock]]]

\* The response returned to reader c with the uptime of the server set on
\* it (lines 258-261 and 269-271).  _get_uptime_seconds reads the start time
\* in a guarded section of its own; the start time is written at startup
\* only, so the read is taken in the step that computes the response.
Returned(c, resp) ==
    ret' = [ret EXCEPT ![c] =
                [kind |-> "response",
                 value |-> WithUptime(resp, GetUptimeSeconds(clock))]]

\* health_service_get, lines 254-261 with 153-156: read the cached documents
\* in a guarded section; a document that validates is returned as the
\* response, otherwise the service itself is read next.
ServiceGetResponse(c) ==
    /\ pc[c] = "idle"
    /\ ops < MaxOps
    /\ ops' = ops + 1
    /\ WithStoreLockRead(c)
    /\ \E s \in ServiceNames :
           IF s \in DOMAIN responses /\ ValidResponse(responses[s])
           THEN /\ Returned(c, responses[s])
                /\ UNCHANGED <<pc, arg>>
           ELSE /\ pc' = [pc EXCEPT ![c] = "sg_service"]
                /\ arg' = [arg EXCEPT ![c] = [NoArg EXCEPT !.service_name = s]]
                /\ ret' = [ret EXCEPT ![c] = NoReturn]
    /\ seen' = [seen EXCEPT ![c] = Len(written)]
    /\ UNCHANGED <<services, responses, clock, now, raw, svc, histVars, aggVars,
                   cred, expected, ultraDict, server_start, written>>

\* Lines 262-271 with 133-141: read the services in a guarded section; no
\* service is a 404, otherwise the response is computed from the service,
\* not stored, and returned.
ServiceGetService(c) ==
    /\ pc[c] = "sg_service"
    /\ WithStoreLockRead(c)
    /\ LET s == arg[c].service_name
           r == StoreGetService(services, s)
       IN  IF ~r.found
           THEN /\ ret' = [ret EXCEPT ![c] = [kind |-> "notfound",
                                              value |-> NoReturn.value]]
                /\ UNCHANGED responses
           ELSE /\ Returned(c, FromService(r.value, clock))
                /\ responses' = CacheAfterRead(responses, s,
                                               FromService(r.value, clock))
    /\ ReadDone(c)
    /\ UNCHANGED <<services, clock, now, svc, ops, histVars, aggVars,
                   cred, expected, ultraDict, server_start, written, seen>>

\* health_service_worker_get, lines 286-292 with 133-141: read the services
\* in a guarded section; 404 without the service or without the worker,
\* otherwise the status of the worker.
WorkerGet(c) ==
    /\ pc[c] = "idle"
    /\ ops < MaxOps
    /\ ops' = ops + 1
    /\ WithStoreLockRead(c)
    /\ \E s \in ServiceNames, w \in WorkerNames :
           LET r == StoreGetService(services, s)
               idx == FindByName(r.value.workers, w)
           IN  ret' = [ret EXCEPT ![c] =
                           IF ~r.found
                           THEN [kind |-> "notfound", value |-> NoReturn.value]
                           ELSE IF idx = 0
                           THEN [kind |-> "worker_notfound",
                                 value |-> NoReturn.value]
                           ELSE [kind |-> "worker",
                                 value |-> [worker |-> w,
                                            status |-> r.value.workers[idx]]]]
    /\ seen' = [seen EXCEPT ![c] = Len(written)]
    /\ UNCHANGED <<services, responses, clock, pc, arg, now, raw, svc,
                   histVars, aggVars, cred, expected, ultraDict, server_start, written>>

\* The list returned to reader c, with the uptime of the server set on
\* every response (lines 230-239 and 243-248).
ReturnedList(c, resps) ==
    ret' = [ret EXCEPT ![c] =
                [kind |-> "list",
                 value |-> [n \in DOMAIN resps |->
                                WithUptime(resps[n], GetUptimeSeconds(clock))]]]

\* health_service_list, lines 228-239 with 148-150: read the cached
\* documents in a guarded section; with cached documents the list is made of
\* those that validate, without any the services are read next.
ListResponses(c) ==
    /\ pc[c] = "idle"
    /\ ops < MaxOps
    /\ ops' = ops + 1
    /\ WithStoreLockRead(c)
    /\ IF DOMAIN responses # {}
       THEN /\ ReturnedList(c, ValidResponses(responses))
            /\ UNCHANGED pc
       ELSE /\ pc' = [pc EXCEPT ![c] = "ls_services"]
            /\ ret' = [ret EXCEPT ![c] = NoReturn]
    /\ seen' = [seen EXCEPT ![c] = Len(written)]
    /\ UNCHANGED <<services, responses, clock, arg, now, raw, svc, histVars,
                   aggVars, cred, expected, ultraDict, server_start, written>>

\* Lines 241-248 with 115-124: read the services in a guarded section,
\* compute the responses of those that validate and return them; they are
\* not stored.
ListServices(c) ==
    /\ pc[c] = "ls_services"
    /\ WithStoreLockRead(c)
    /\ LET svcs == ValidServices(services)
       IN  ReturnedList(c, [n \in DOMAIN svcs |-> FromService(svcs[n], clock)])
    /\ ReadDone(c)
    /\ UNCHANGED <<services, responses, clock, now, svc, ops, histVars, aggVars,
                   cred, expected, ultraDict, server_start, written, seen>>

\* A cache entry is lost or replaced by a document that does not validate,
\* while no call is under way; the event counts among the calls of the run.
CorruptCache ==
    /\ \A c \in Callers : pc[c] = "idle"
    /\ ops < MaxOps
    /\ ops' = ops + 1
    /\ \E s \in DOMAIN responses :
           /\ ValidResponse(responses[s])
           /\ \/ responses' = DictDel(responses, s)
              \/ responses' = DictSet(responses, s,
                                      [responses[s] EXCEPT
                                           !.aggregate_status = "bogus"])
    /\ UNCHANGED <<services, lockOwner, clock, pc, arg, now, raw, svc,
                   histVars, aggVars>>

\* The mutation of c returns: its service joins the completed mutations.
Completed(c) ==
    /\ written' = Append(written, svc[c])
    /\ UNCHANGED <<ret, cred, expected, ultraDict, server_start, seen>>

NextRead ==
    \/ \E c \in Writers :
           \/ UpdateWorkerCall(c) /\ UNCHANGED auxVars
           \/ UpdateWorkerLock(c) /\ UNCHANGED auxVars
           \/ UpdateWorkerWrite(c) /\ UNCHANGED auxVars
           \/ UpdateWorkerCache(c) /\ UNCHANGED auxVars
           \/ UpdateWorkerReturn(c) /\ Completed(c)
           \/ UpdateConfigLock(c) /\ UNCHANGED auxVars
           \/ UpdateConfigWrite(c) /\ UNCHANGED auxVars
           \/ UpdateConfigCache(c) /\ UNCHANGED auxVars
           \/ UpdateConfigReturn(c) /\ Completed(c)
    \/ \E c \in Readers :
           \/ ServiceGetResponse(c)
           \/ ServiceGetService(c)
           \/ WorkerGet(c)
           \/ ListResponses(c)
           \/ ListServices(c)
    \/ CorruptCache /\ UNCHANGED auxVars

SpecRead == Init /\ [][NextRead]_vars

\* ------------------------------------------------------------------------
\* Processes that start with or without the UltraDict package
\* (storage.py 6-10 and 31-71)
\* ------------------------------------------------------------------------

\* A get_store that goes on without the package.
GetStoreNeverRaises == FALSE

\* get_store, lines 43-44, and init_store, lines 33-34: RuntimeError when
\* the import of UltraDict failed.
GetStoreRaises == ~ultraDict

\* with_store_lock, line 54, set_value, line 65, and get_value, line 70,
\* begin with get_store(); the registry operations and the read handlers
\* begin with with_store_lock().
StoreOps ==
    {"init_store", "get_store", "with_store_lock", "set_value", "get_value",
     "_store_update_worker", "_store_update_config", "_store_get_service",
     "_store_get_response"}

RuntimeError(op) == [kind |-> "RuntimeError", value |-> op]

InitStore ==
    /\ services = EmptyDict
    /\ responses = EmptyDict
    /\ lockOwner = NoCaller
    /\ clock = 1
    /\ pc = [c \in Callers |-> "start"]
    /\ arg = [c \in Callers |-> NoArg]
    /\ now = [c \in Callers |-> None]
    /\ raw = [c \in Callers |-> EmptyDict]
    /\ svc = [c \in Callers |-> Service("")]
    /\ ops = 0
    /\ lastHealth = EmptyDict
    /\ lastConfig = EmptyDict
    /\ lastMut = EmptyDict
    /\ aggService = Service("db")
    /\ aggResponse = FromService(Service("db"), 1)
    /\ ret = [c \in Callers |-> NoReturn]
    /\ cred = [c \in Callers |-> NoCredentials]
    /\ expected = ""
    /\ ultraDict \in BOOLEAN
    /\ server_start = None
    /\ written = << >>
    /\ seen = [c \in Callers |-> 0]

\* api.py line 23, `app_data = get_store()` at import: the process has its
\* store, or the import ends with the RuntimeError.
Start(c) ==
    /\ pc[c] = "start"
    /\ IF GetStoreRaises
       THEN /\ pc' = [pc EXCEPT ![c] = "failed"]
            /\ ret' = [ret EXCEPT ![c] = RuntimeError("get_store")]
       ELSE /\ pc' = [pc EXCEPT ![c] = "idle"]
            /\ UNCHANGED ret
    /\ UNCHANGED <<storeVars, clock, arg, now, raw, svc, ops, histVars, aggVars,
                   cred, expected, ultraDict, server_start, written, seen>>

\* A call of a storage function or of a registry operation in a process
\* without a store: get_store raises before anything is read or written.
StoreOpRaises(c) ==
    /\ pc[c] = "failed"
    /\ GetStoreRaises
    /\ ops < MaxOps
    /\ ops' = ops + 1
    /\ \E op \in StoreOps : ret' = [ret EXCEPT ![c] = RuntimeError(op)]
    /\ UNCHANGED <<storeVars, clock, pc, arg, now, raw, svc, histVars, aggVars,
                   cred, expected, ultraDict, server_start, written, seen>>

\* set_value(key, value), lines 64-66, with an empty dict as the value.
SetValue(c) ==
    /\ pc[c] = "idle"
    /\ ~GetStoreRaises
    /\ ops < MaxOps
    /\ ops' = ops + 1
    /\ \/ services' = EmptyDict /\ UNCHANGED responses
       \/ responses' = EmptyDict /\ UNCHANGED services
    /\ ret' = [ret EXCEPT ![c] = NoReturn]
    /\ UNCHANGED <<lockOwner, clock, pc, arg, now, raw, svc, histVars, aggVars,
                   cred, expected, ultraDict, server_start, written, seen>>

\* get_value(key), lines 69-71.
GetValue(c) ==
    /\ pc[c] = "idle"
    /\ ~GetStoreRaises
    /\ ops < MaxOps
    /\ ops' = ops + 1
    /\ \/ ret' = [ret EXCEPT ![c] = [kind |-> "value", value |-> services]]
       \/ ret' = [ret EXCEPT ![c] = [kind |-> "value", value |-> responses]]
    /\ UNCHANGED <<storeVars, clock, pc, arg, now, raw, svc, histVars, aggVars,
                   cred, expected, ultraDict, server_start, written, seen>>

NextStore ==
    \/ \E c \in Callers :
           \/ Start(c)
           \/ StoreOpRaises(c)
           \/ SetValue(c)
           \/ GetValue(c)
    \/ \E c \in Writers :
           \/ UpdateWorkerCall(c) /\ UNCHANGED auxVars
           \/ ~GetStoreRaises /\ UpdateWorkerLock(c) /\ UNCHANGED auxVars
           \/ UpdateWorkerWrite(c) /\ UNCHANGED auxVars
           \/ UpdateWorkerCache(c) /\ UNCHANGED auxVars
           \/ UpdateWorkerReturn(c) /\ UNCHANGED auxVars
           \/ ~GetStoreRaises /\ UpdateConfigLock(c) /\ UNCHANGED auxVars
           \/ UpdateConfigWrite(c) /\ UNCHANGED auxVars
           \/ UpdateConfigCache(c) /\ UNCHANGED auxVars
           \/ UpdateConfigReturn(c) /\ UNCHANGED auxVars

SpecStore == InitStore /\ [][NextStore]_vars

\* ------------------------------------------------------------------------
\* The HTTP handlers with the bearer check (api.py 76-112, 251-303): one
\* process serves mutating requests, another serves reads.
\* ------------------------------------------------------------------------

\* What _get_expected_apikey can return: no key ("" stands for None and for
\* the empty string, which `not expected` treats alike) or a key.
ExpectedKeys == {"", "s3cret"}

\* The credentials HTTPBearer hands to the handler: none, the key, another
\* token, and the key under another scheme.
CredInputs ==
    {NoCredentials,
     [scheme |-> "Bearer", credentials |-> "s3cret"],
     [scheme |-> "Bearer", credentials |-> "guess"],
     [scheme |-> "Basic", credentials |-> "s3cret"]}

\* str.lower() on the schemes of the inputs.
Lower(str) ==
    CASE str = "Bearer" -> "bearer"
      [] str = "Basic" -> "basic"
      [] OTHER -> str

\* A check that lets every request pass.
RequireApiKeyDocOpen(key, creds) == FALSE

\* require_api_key_doc, lines 107-112: whether it raises the 401.
RequireApiKeyDoc(key, creds) ==
    IF key = ""
    THEN FALSE
    ELSE \/ creds = NoCredentials
         \/ Lower(creds.scheme) # "bearer"
         \/ creds.credentials # key

Unauthorized == [kind |-> "unauthorized", value |-> NoReturn.value]

Accepted == [kind |-> "accepted", value |-> NoReturn.value]

\* app_startup, line 29: the configuration is loaded before any request.
AppStartup ==
    /\ ops = 0
    /\ \A c \in Callers : pc[c] = "idle"
    /\ \E k \in ExpectedKeys : expected' = k
    /\ UNCHANGED <<storeVars, clock, callVars, histVars, aggVars,
                   ret, cred, ultraDict, server_start, written, seen>>

\* The 401 of a mutating request: nothing but the reply.
Reject(c, creds) ==
    /\ pc[c] = "idle"
    /\ ops < MaxOps
    /\ ops' = ops + 1
    /\ cred' = [cred EXCEPT ![c] = creds]
    /\ ret' = [ret EXCEPT ![c] = Unauthorized]
    /\ UNCHANGED <<storeVars, clock, pc, arg, now, raw, svc, histVars, aggVars,
                   expected, ultraDict, server_start, written, seen>>

\* A mutating request passed the check and its registry operation begins.
Admit(c, creds) ==
    /\ cred' = [cred EXCEPT ![c] = creds]
    /\ ret' = [ret EXCEPT ![c] = NoReturn]
    /\ UNCHANGED <<expected, ultraDict, server_start, written, seen>>

\* health_service_worker_update, lines 295-297: the dependency
\* require_api_key_doc, then _store_update_worker.
WorkerUpdateRequest(c) ==
    \E creds \in CredInputs :
        IF RequireApiKeyDoc(expected, creds)
        THEN Reject(c, creds)
        ELSE UpdateWorkerCall(c) /\ Admit(c, creds)

\* health_service_config_update, lines 274-276: the dependency
\* require_api_key_doc, then _store_update_config.
ConfigUpdateRequest(c) ==
    \E creds \in CredInputs :
        IF RequireApiKeyDoc(expected, creds)
        THEN Reject(c, creds)
        ELSE UpdateConfigLock(c) /\ Admit(c, creds)

\* Lines 277-281 and 298-303: the reply of a mutating request.
Reply(c) ==
    /\ ret' = [ret EXCEPT ![c] = Accepted]
    /\ cred' = [cred EXCEPT ![c] = NoCredentials]
    /\ UNCHANGED <<expected, ultraDict, server_start, written, seen>>

NextAuth ==
    \/ AppStartup
    \/ \E c \in Writers :
           \/ WorkerUpdateRequest(c)
           \/ UpdateWorkerLock(c) /\ UNCHANGED auxVars
           \/ UpdateWorkerWrite(c) /\ UNCHANGED auxVars
           \/ UpdateWorkerCache(c) /\ UNCHANGED auxVars
           \/ UpdateWorkerReturn(c) /\ Reply(c)
           \/ ConfigUpdateRequest(c)
           \/ UpdateConfigWrite(c) /\ UNCHANGED auxVars
           \/ UpdateConfigCache(c) /\ UNCHANGED auxVars
           \/ UpdateConfigReturn(c) /\ Reply(c)
    \/ \E c \in Readers :
           \/ ServiceGetResponse(c)
           \/ ServiceGetService(c)

SpecAuth == Init /\ [][NextAuth]_vars

\* ------------------------------------------------------------------------
\* Exceptions inside the guarded section (storage.py 52-61): a statement of
\* _store_update_worker between the entry and the end of the `with` block
\* raises, as the write of a store that is full.
\* ------------------------------------------------------------------------

\* A section whose lock stays taken when the body raises.
LockKeptOnRaise(c) ==
    UNCHANGED lockOwner

\* with_store_lock, lines 60-61, when the body raises: the exception enters
\* the generator at the yield, `with lock:` releases the lock and the
\* exception goes on to the caller.
LockExitOnRaise(c) ==
    IF StoreHasLock
    THEN lockOwner' = NoCaller
    ELSE UNCHANGED lockOwner

\* A statement of the section of caller c raises: what was written stays,
\* the section is left and the call ends with the exception.
Raise(c) ==
    /\ pc[c] \in {"uw_write", "uw_cache"}
    /\ LockExitOnRaise(c)
    /\ pc' = [pc EXCEPT ![c] = "idle"]
    /\ arg' = [arg EXCEPT ![c] = NoArg]
    /\ now' = [now EXCEPT ![c] = None]
    /\ raw' = [raw EXCEPT ![c] = EmptyDict]
    /\ svc' = [svc EXCEPT ![c] = Service("")]
    /\ UNCHANGED <<services, responses, clock, ops, histVars, aggVars, auxVars>>

NextRaise ==
    \E c \in Callers :
        \/ UpdateWorkerCall(c) /\ UNCHANGED auxVars
        \/ UpdateWorkerLock(c) /\ UNCHANGED auxVars
        \/ UpdateWorkerWrite(c) /\ UNCHANGED auxVars
        \/ UpdateWorkerCache(c) /\ UNCHANGED auxVars
        \/ UpdateWorkerReturn(c) /\ UNCHANGED auxVars
        \/ Raise(c)

SpecRaise == Init /\ [][NextRaise]_vars

\* ------------------------------------------------------------------------
\* Progress: two processes mutate the registry and one of them also reads
\* it.  A process that is inside a guarded section goes on (weak fairness);
\* a process that waits for the lock enters it if the lock is free again
\* and again (strong fairness: the lock does not pass a waiter over for
\* ever).  Whether a call starts is up to its client.
\* ------------------------------------------------------------------------

\* Progress does not depend on what is reported: the calls of this
\* specification report one worker as running and set one policy, and the
\* clock stands still.
LiveWorkerCall(c) ==
    /\ UpdateWorkerCall(c)
    /\ arg'[c].worker_name = "w1"
    /\ arg'[c].health.mode = "running"
    /\ clock' = clock
    /\ UNCHANGED auxVars

LiveWorkerCache(c) ==
    /\ UpdateWorkerCache(c)
    /\ clock' = clock
    /\ UNCHANGED auxVars

LiveConfigLock(c) ==
    /\ UpdateConfigLock(c)
    /\ arg'[c].config.policy = "any"
    /\ UNCHANGED auxVars

LiveConfigCache(c) ==
    /\ UpdateConfigCache(c)
    /\ clock' = clock
    /\ UNCHANGED auxVars

\* The steps of caller c inside a guarded section and out of it.
SectionStep(c) ==
    \/ UpdateWorkerWrite(c) /\ UNCHANGED auxVars
    \/ LiveWorkerCache(c)
    \/ UpdateWorkerReturn(c) /\ UNCHANGED auxVars
    \/ UpdateConfigWrite(c) /\ UNCHANGED auxVars
    \/ LiveConfigCache(c)
    \/ UpdateConfigReturn(c) /\ UNCHANGED auxVars

\* The entry of caller c into the section it waits for.
AcquireStep(c) ==
    \/ UpdateWorkerLock(c) /\ UNCHANGED auxVars
    \/ ServiceGetService(c)
    \/ ListServices(c)

NextLive ==
    \/ \E c \in Callers :
           \/ LiveWorkerCall(c)
           \/ UpdateWorkerLock(c) /\ UNCHANGED auxVars
           \/ UpdateWorkerWrite(c) /\ UNCHANGED auxVars
           \/ LiveWorkerCache(c)
           \/ UpdateWorkerReturn(c) /\ UNCHANGED auxVars
           \/ LiveConfigLock(c)
           \/ UpdateConfigWrite(c) /\ UNCHANGED auxVars
           \/ LiveConfigCache(c)
           \/ UpdateConfigReturn(c) /\ UNCHANGED auxVars
    \/ \E c \in Readers :
           \/ ServiceGetResponse(c)
           \/ ServiceGetService(c)
           \/ ListResponses(c)
           \/ ListServices(c)
           \/ WorkerGet(c)

FairLive ==
    \A c \in Callers :
        /\ WF_vars(SectionStep(c))
        /\ SF_vars(AcquireStep(c))

SpecLive == Init /\ [][NextLive]_vars /\ FairLive

\* ------------------------------------------------------------------------
\* Reports without a worker name
\* ------------------------------------------------------------------------

\* ServiceStatus.worker_name is Optional[str]: a report whose worker name is
\* unset or empty.  Both are false for upsert and equal to themselves for
\* find_by_name; the model writes "" for either.
Unnamed == ""

\* Line 160 of a call of _store_update_worker without a worker name.
UnnamedWorkerCall(c) ==
    /\ pc[c] = "idle"
    /\ ops < MaxOps
    /\ \E s \in ServiceNames, h \in HealthInputs, t \in ClockReads :
           /\ arg' = [arg EXCEPT ![c] = [NoArg EXCEPT !.service_name = s,
                                                      !.worker_name = Unnamed,
                                                      !.health = h]]
           /\ now' = [now EXCEPT ![c] = t]
           /\ clock' = t
    /\ pc' = [pc EXCEPT ![c] = "uw_lock"]
    /\ ops' = ops + 1
    /\ UNCHANGED <<storeVars, raw, svc, histVars, aggVars>>

\* One caller that reports named and unnamed workers.
NextUnnamed ==
    \E c \in Writers :
        \/ UnnamedWorkerCall(c) /\ UNCHANGED auxVars
        \/ UpdateWorkerCall(c) /\ UNCHANGED auxVars
        \/ UpdateWorkerLock(c) /\ UNCHANGED auxVars
        \/ UpdateWorkerWrite(c) /\ UNCHANGED auxVars
        \/ UpdateWorkerCache(c) /\ UNCHANGED auxVars
        \/ UpdateWorkerReturn(c) /\ UNCHANGED auxVars

SpecUnnamed == Init /\ [][NextUnnamed]_vars

\* ------------------------------------------------------------------------
\* Reports for two services
\* ------------------------------------------------------------------------

\* service_name is a path parameter: any name; two are enough to have a
\* service other than the one reported for.
FrameServiceNames == {"db", "web"}

\* Line 160 of a call of _store_update_worker for one of the two services.
FrameWorkerCall(c) ==
    /\ pc[c] = "idle"
    /\ ops < MaxOps
    /\ \E s \in FrameServiceNames, w \in WorkerInputs, h \in HealthInputs,
          t \in ClockReads :
           /\ arg' = [arg EXCEPT ![c] = [NoArg EXCEPT !.service_name = s,
                                                      !.worker_name = w,
                                                      !.health = h]]
           /\ now' = [now EXCEPT ![c] = t]
           /\ clock' = t
    /\ pc' = [pc EXCEPT ![c] = "uw_lock"]
    /\ ops' = ops + 1
    /\ UNCHANGED <<storeVars, raw, svc, histVars, aggVars>>

\* One caller that reports workers of two services and sets configs.
NextFrame ==
    \E c \in Writers :
        \/ FrameWorkerCall(c) /\ UNCHANGED auxVars
        \/ UpdateWorkerLock(c) /\ UNCHANGED auxVars
        \/ UpdateWorkerWrite(c) /\ UNCHANGED auxVars
        \/ UpdateWorkerCache(c) /\ UNCHANGED auxVars
        \/ UpdateWorkerReturn(c) /\ UNCHANGED auxVars
        \/ UpdateConfigLock(c) /\ UNCHANGED auxVars
        \/ UpdateConfigWrite(c) /\ UNCHANGED auxVars
        \/ UpdateConfigCache(c) /\ UNCHANGED auxVars
        \/ UpdateConfigReturn(c) /\ UNCHANGED auxVars

SpecFrame == Init /\ [][NextFrame]_vars

\* ------------------------------------------------------------------------
\* Startups of processes that share the store (api.py 26-36, 63-75)
\* ------------------------------------------------------------------------

\* A startup that stores its own time whatever the store holds.
StartupValueAlways(started, t) == t

\* Lines 33-34: `if not app_data.get("server_start")` stores the time when
\* the key is unset, and keeps the stored value otherwise.
StartupValue(started, t) == IF started = None THEN t ELSE started

\* _get_uptime_seconds, lines 68-75, with the value read from the store:
\* None when no start time is stored.
UptimeSince(started, t) ==
    IF started = None THEN None
    ELSE IF t > started THEN t - started ELSE 0

\* No process has started and the store is new: server_start is unset.
InitStartup ==
    /\ services = EmptyDict
    /\ responses = EmptyDict
    /\ lockOwner = NoCaller
    /\ clock = 1
    /\ pc = [c \in Callers |-> "boot"]
    /\ arg = [c \in Callers |-> NoArg]
    /\ now = [c \in Callers |-> None]
    /\ raw = [c \in Callers |-> EmptyDict]
    /\ svc = [c \in Callers |-> Service("")]
    /\ ops = 0
    /\ lastHealth = EmptyDict
    /\ lastConfig = EmptyDict
    /\ lastMut = EmptyDict
    /\ aggService = Service("db")
    /\ aggResponse = FromService(Service("db"), 1)
    /\ ret = [c \in Callers |-> NoReturn]
    /\ cred = [c \in Callers |-> NoCredentials]
    /\ expected = ""
    /\ ultraDict = TRUE
    /\ server_start = None
    /\ written = << >>
    /\ seen = [c \in Callers |-> 0]

\* app_startup, line 32: process c enters the guarded section.
StartupLock(c) ==
    /\ pc[c] = "boot"
    /\ ops < MaxOps
    /\ ops' = ops + 1
    /\ LockEnter(c)
    /\ pc' = [pc EXCEPT ![c] = "su_set"]
    /\ UNCHANGED <<services, responses, clock, arg, now, raw, svc, histVars,
                   aggVars, ret, cred, expected, ultraDict, server_start,
                   written, seen>>

\* Lines 33-34: inside the section the start time is stored when there is
\* none; time.time() is read only then.
StartupSet(c) ==
    /\ pc[c] = "su_set"
    /\ \E t \in ClockReads :
           /\ server_start' = StartupValue(server_start, t)
           /\ clock' = IF server_start = None THEN t ELSE clock
    /\ pc' = [pc EXCEPT ![c] = "su_unlock"]
    /\ UNCHANGED <<storeVars, arg, now, raw, svc, ops, histVars, aggVars,
                   ret, cred, expected, ultraDict, written, seen>>

\* Line 34 to 36: the section is left and the process serves requests.
StartupReturn(c) ==
    /\ pc[c] = "su_unlock"
    /\ LockExit(c)
    /\ pc' = [pc EXCEPT ![c] = "idle"]
    /\ UNCHANGED <<services, responses, clock, arg, now, raw, svc, ops,
                   histVars, aggVars, ret, cred, expected, ultraDict,
                   server_start, written, seen>>

\* app_shutdown, lines 39-44, and a new start of the process: the shared
\* store is kept.
Restart(c) ==
    /\ pc[c] = "idle"
    /\ pc' = [pc EXCEPT ![c] = "boot"]
    /\ UNCHANGED <<storeVars, clock, arg, now, raw, svc, ops, histVars, aggVars,
                   ret, cred, expected, ultraDict, server_start, written, seen>>

\* GET /health, lines 218-222 with 63-75: the uptime of the server, read in
\* a guarded section.
HealthRead(c) ==
    /\ pc[c] = "idle"
    /\ ops < MaxOps
    /\ ops' = ops + 1
    /\ WithStoreLockRead(c)
    /\ ret' = [ret EXCEPT ![c] =
                   [kind |-> "health",
                    value |-> UptimeSince(server_start, clock)]]
    /\ UNCHANGED <<services, responses, clock, pc, arg, now, raw, svc, histVars,
                   aggVars, cred, expected, ultraDict, server_start, written,
                   seen>>

\* Processes that start, restart, report workers and read the uptime.
NextStartup ==
    \E c \in Callers :
        \/ StartupLock(c)
        \/ StartupSet(c)
        \/ StartupReturn(c)
        \/ Restart(c)
        \/ HealthRead(c)
        \/ UpdateWorkerCall(c) /\ UNCHANGED auxVars
        \/ UpdateWorkerLock(c) /\ UNCHANGED auxVars
        \/ UpdateWorkerWrite(c) /\ UNCHANGED auxVars
        \/ UpdateWorkerCache(c) /\ UNCHANGED auxVars
        \/ UpdateWorkerReturn(c) /\ UNCHANGED auxVars

SpecStartup == InitStartup /\ [][NextStartup]_vars

\* ------------------------------------------------------------------------
\* Properties of the store under concurrent callers (specification Spec)
\* ------------------------------------------------------------------------

\* Caller c is inside a section guarded by with_store_lock.
InSection(c) ==
    pc[c] \in {"uw_write", "uw_cache", "uw_unlock",
               "uc_write", "uc_cache", "uc_unlock"}

AllReturned == \A c \in Callers : pc[c] = "idle"

\* The positions of the entries of that name in a workers list.
EntriesOf(workers, worker_name) ==
    {i \in 1..Len(workers) : workers[i].worker_name = worker_name}

\* C1: whenever no caller holds the store lock, a name has an entry in
\* services exactly when it has one in responses, and the cached response
\* has the name, config and workers of the stored service and the aggregate
\* status and mode of those workers under that config's policy.
CacheCoherent ==
    lockOwner = NoCaller =>
        /\ DOMAIN services = DOMAIN responses
        /\ \A n \in DOMAIN services :
               /\ responses[n].name = services[n].name
               /\ responses[n].config = services[n].config
               /\ responses[n].workers = services[n].workers
               /\ responses[n].aggregate_status = Aggregate(services[n]).agg_status
               /\ responses[n].aggregate_mode = Aggregate(services[n]).agg_mode

\* C1 witness: the lock is free, a config update and two worker reports have
\* been stored, and the cache holds their aggregate under policy any.
CacheCoherentWitness ==
    /\ lockOwner = NoCaller
    /\ "db" \in DOMAIN services
    /\ "db" \in DOMAIN responses
    /\ services["db"].config.policy = "any"
    /\ Len(services["db"].workers) = 2
    /\ responses["db"].aggregate_status = "ok"
    /\ \E i \in 1..2 : services["db"].workers[i].health.status = "error"

\* C2: once all calls have returned, the stored service has exactly one
\* entry for every worker name that was reported, with the health of the
\* report that took the lock last, and the config of the updateConfig that
\* took the lock last.
NoLostUpdates ==
    AllReturned =>
        \A s \in ServiceNames :
            /\ \A w \in WorkerNames :
                   <<s, w>> \in DOMAIN lastHealth =>
                       /\ s \in DOMAIN services
                       /\ Cardinality(EntriesOf(services[s].workers, w)) = 1
                       /\ \A i \in EntriesOf(services[s].workers, w) :
                              services[s].workers[i].health = lastHealth[<<s, w>>]
            /\ s \in DOMAIN lastConfig =>
                   /\ s \in DOMAIN services
                   /\ services[s].config = lastConfig[s]

\* C2 witness: three calls have returned: reports for two workers and a
\* config update, all of them stored.
NoLostUpdatesWitness ==
    /\ AllReturned
    /\ ops = 3
    /\ <<"db", "w1">> \in DOMAIN lastHealth
    /\ <<"db", "w2">> \in DOMAIN lastHealth
    /\ "db" \in DOMAIN lastConfig
    /\ Len(services["db"].workers) = 2
    /\ services["db"].config.policy = "majority"

\* C3: two callers are never both inside a guarded section, and the caller
\* inside is the one that holds the lock.
MutualExclusion ==
    \A c1, c2 \in Callers :
        InSection(c1) /\ InSection(c2) => c1 = c2 /\ lockOwner = c1

\* C3 witness: one caller is inside the section while the other one has
\* started a call and waits at the lock.
MutualExclusionWitness ==
    \E c1, c2 \in Callers :
        /\ InSection(c1)
        /\ pc[c2] = "uw_lock"
        /\ lockOwner = c1

\* C4: first_running_at of a stored service is set exactly when one of its
\* workers is in mode running.
FirstRunningIffRunning ==
    \A s \in DOMAIN services :
        (services[s].first_running_at # None)
            <=> (\E i \in 1..Len(services[s].workers) :
                     services[s].workers[i].health.mode = "running")

\* C4 witness: a report that left no worker running was written and
\* first_running_at is unset, while the worker reported running before.
FirstRunningIffRunningWitness ==
    /\ "db" \in DOMAIN services
    /\ services["db"].first_running_at = None
    /\ Len(services["db"].workers) = 2
    /\ "db" \in DOMAIN responses
    /\ responses["db"].first_running_at # None
    /\ \A i \in 1..2 : services["db"].workers[i].health.mode = "stopped"

\* C5: a write to a service whose first_running_at is set, after which a
\* worker is still running, leaves first_running_at as it was.
FirstRunningStable ==
    [][\A s \in DOMAIN services :
           (/\ services[s].first_running_at # None
            /\ s \in DOMAIN services'
            /\ \E i \in 1..Len(services'[s].workers) :
                   services'[s].workers[i].health.mode = "running")
           => services'[s].first_running_at = services[s].first_running_at]_vars

\* C5 witness: a worker reported running after first_running_at was set, and
\* first_running_at still has its earlier value.
FirstRunningStableWitness ==
    /\ "db" \in DOMAIN services
    /\ services["db"].first_running_at # None
    /\ \E i \in 1..Len(services["db"].workers) :
           /\ services["db"].workers[i].health.mode = "running"
           /\ services["db"].workers[i].checked_at > services["db"].first_running_at

\* C10: when the last mutation written to a service was a report of health
\* h for worker w, writing the same report again leaves the length of the
\* workers list and the whole stored service as they were, except for the
\* checked_at of that worker.
UpsertIdempotent ==
    [][\A c \in Callers :
           LET s == arg[c].service_name
               w == arg[c].worker_name
           IN  (/\ pc[c] = "uw_write"
                /\ pc'[c] = "uw_cache"
                /\ w # ""
                /\ SameAsLast(s, w, arg[c].health))
               => /\ s \in DOMAIN services
                  /\ Len(services'[s].workers) = Len(services[s].workers)
                  /\ services'[s].name = services[s].name
                  /\ services'[s].config = services[s].config
                  /\ services'[s].first_running_at = services[s].first_running_at
                  /\ \A i \in 1..Len(services[s].workers) :
                         IF services[s].workers[i].worker_name = w
                         THEN services'[s].workers[i] =
                                  [services[s].workers[i] EXCEPT
                                       !.checked_at = now[c]]
                         ELSE services'[s].workers[i] = services[s].workers[i]]_vars

\* C10 witness: the same report was written twice in a row, at different
\* times, to a service with another worker.
UpsertIdempotentWitness ==
    /\ "db" \in DOMAIN lastMut
    /\ lastMut["db"].repeated
    /\ Len(services["db"].workers) = 2
    /\ \E c \in Callers :
           /\ pc[c] = "uw_cache"
           /\ now[c] > 1

\* C11: in every stored service no two entries of the workers list have the
\* same worker_name.
UniqueWorkerNames ==
    \A s \in DOMAIN services :
        \A i, j \in 1..Len(services[s].workers) :
            services[s].workers[i].worker_name = services[s].workers[j].worker_name
                => i = j

\* C11 witness: the same worker was reported twice in a row and another
\* worker once; all calls have returned and the list has two entries.
UniqueWorkerNamesWitness ==
    /\ AllReturned
    /\ "db" \in DOMAIN lastMut
    /\ lastMut["db"].repeated
    /\ Len(services["db"].workers) = 2
    /\ services["db"].workers[1].worker_name # services["db"].workers[2].worker_name

\* C12: the write of an updateConfig on an existing service leaves its
\* workers and first_running_at as they were and stores the new config; the
\* cache entry written next has the new config, the same workers and their
\* aggregate under the new policy.
UpdateConfigFrame ==
    [][\A c \in Callers :
           LET s == arg[c].service_name
           IN  /\ (/\ pc[c] = "uc_write"
                   /\ pc'[c] = "uc_cache"
                   /\ s \in DOMAIN services)
                  => /\ services'[s].workers = services[s].workers
                     /\ services'[s].first_running_at = services[s].first_running_at
                     /\ services'[s].name = services[s].name
                     /\ services'[s].config = arg[c].config
               /\ (/\ pc[c] = "uc_cache"
                   /\ pc'[c] = "uc_unlock")
                  => /\ responses'[s].config = arg[c].config
                     /\ responses'[s].workers = services[s].workers
                     /\ responses'[s].first_running_at = services[s].first_running_at
                     /\ responses'[s].aggregate_status =
                            Aggregate([services[s] EXCEPT !.config = arg[c].config]).agg_status
                     /\ responses'[s].aggregate_mode =
                            Aggregate([services[s] EXCEPT !.config = arg[c].config]).agg_mode]_vars

\* C12 witness: an updateConfig to policy any has written a service with two
\* workers, one OK and running and one in error, and its cache entry.
UpdateConfigFrameWitness ==
    \E c \in Callers :
        /\ pc[c] = "uc_unlock"
        /\ arg[c].config.policy = "any"
        /\ Len(services["db"].workers) = 2
        /\ services["db"].first_running_at # None
        /\ \E i \in 1..2 : services["db"].workers[i].health.status = "error"
        /\ responses["db"].config.policy = "any"
        /\ responses["db"].aggregate_status = "ok"

\* The stored checked_at of worker w of service s in a dict of services,
\* None when it has none.
StoredCheckedAt(data, s, w) ==
    IF s \in DOMAIN data /\ FindByName(data[s].workers, w) # 0
    THEN data[s].workers[FindByName(data[s].workers, w)].checked_at
    ELSE None

\* C29: the clock never goes backwards, and from one stored state to the
\* next the stored checked_at of a worker never decreases, however the
\* concurrent reports interleave.
CheckedAtMonotonic ==
    [][/\ clock' >= clock
       /\ \A s \in ServiceNames, w \in WorkerNames :
              StoredCheckedAt(services, s, w) # None
                  => StoredCheckedAt(services', s, w)
                         >= StoredCheckedAt(services, s, w)]_vars

\* ------------------------------------------------------------------------
\* Properties of the registry with malformed records (specification SpecHeal)
\* ------------------------------------------------------------------------

\* The call of c loaded a record that does not validate.
LoadedMalformed(c) ==
    /\ arg[c].service_name \in DOMAIN raw[c]
    /\ ~ValidDocument(raw[c][arg[c].service_name])

\* C13: when the stored record of the service is malformed, upsertWorker
\* writes a fresh service with the default config and only the reported
\* worker, updateConfig writes a fresh service with the supplied config and
\* no workers, and the cache entry written next is the response of that
\* service.
SelfHealing ==
    [][\A c \in Callers :
           LET s == arg[c].service_name
           IN  /\ (pc[c] = "uw_write" /\ pc'[c] = "uw_cache" /\ LoadedMalformed(c))
                  => services'[s] =
                         [name |-> s,
                          config |-> ServiceConfig("all"),
                          workers |-> <<[worker_name |-> arg[c].worker_name,
                                         health |-> arg[c].health,
                                         retries |-> 0,
                                         checked_at |-> now[c],
                                         last_retry_at |-> None]>>,
                          first_running_at |->
                              IF arg[c].health.mode = "running"
                              THEN now[c] ELSE None]
               /\ (pc[c] = "uc_write" /\ pc'[c] = "uc_cache" /\ LoadedMalformed(c))
                  => services'[s] =
                         [name |-> s,
                          config |-> arg[c].config,
                          workers |-> << >>,
                          first_running_at |-> None]
               /\ (/\ pc[c] \in {"uw_cache", "uc_cache"}
                   /\ pc'[c] \in {"uw_unlock", "uc_unlock"}
                   /\ LoadedMalformed(c))
                  => /\ responses'[s].name = services[s].name
                     /\ responses'[s].config = services[s].config
                     /\ responses'[s].workers = services[s].workers
                     /\ responses'[s].first_running_at = services[s].first_running_at
                     /\ responses'[s].aggregate_status = Aggregate(services[s]).agg_status
                     /\ responses'[s].aggregate_mode = Aggregate(services[s]).agg_mode
                     /\ ValidDocument(services[s])]_vars

\* C13 witness: a record with two workers was made malformed; the next
\* upsertWorker has written a service with one worker and its cache entry.
SelfHealingWitness ==
    \E c \in Callers :
        /\ pc[c] = "uw_unlock"
        /\ LoadedMalformed(c)
        /\ Len(raw[c]["db"].workers) = 2
        /\ Len(services["db"].workers) = 1
        /\ responses["db"].workers = services["db"].workers
        /\ responses["db"].config.policy = "all"

\* ------------------------------------------------------------------------
\* Properties of the read path (specification SpecRead)
\* ------------------------------------------------------------------------

\* The step is the return of a read of one service by reader c: from the
\* cache, or after the read of the service itself.
ServiceGetReturns(c) ==
    \/ ServiceGetService(c)
    \/ ServiceGetResponse(c) /\ ret'[c].kind = "response"

\* C14: a read of a service returns NotFound exactly when no upsertWorker
\* and no updateConfig has completed, and a ServiceResponse otherwise, so
\* every read after the first mutation returns a ServiceResponse.
ReadNotFoundIff ==
    [][\A c \in Readers :
           ServiceGetReturns(c)
               => /\ ret'[c].kind \in {"notfound", "response"}
                  /\ ret'[c].kind = "notfound" <=> Len(written) = 0]_vars

\* C14 witness: a read began before any mutation had completed, missed the
\* cache, and returned a response because a mutation completed before the
\* read of the service.
ReadNotFoundIffWitness ==
    \E c \in Readers :
        /\ pc[c] = "idle"
        /\ ret[c].kind = "response"
        /\ seen[c] = 0
        /\ Len(written) = 1

\* Reader c takes a step.
ReaderStep(c) ==
    pc'[c] # pc[c] \/ ret'[c] # ret[c] \/ seen'[c] # seen[c]

\* C15: no step of a reader (one service, the list, one worker) changes the
\* services or the cached responses of the store.
ReadPathFrame ==
    [][\A c \in Readers :
           ReaderStep(c) => services' = services /\ responses' = responses]_vars

\* C15 witness: a read of a service whose cache entry does not validate has
\* returned the response recomputed from the service, and the cache entry
\* is as it was.
ReadPathFrameWitness ==
    \E c \in Readers :
        /\ pc[c] = "idle"
        /\ ret[c].kind = "response"
        /\ "db" \in DOMAIN responses
        /\ ~ValidResponse(responses["db"])
        /\ ret[c].value.workers = services["db"].workers
        /\ Len(ret[c].value.workers) = 1

\* The response resp is the one of service state service.
ResponseOf(resp, service) ==
    /\ resp.workers = service.workers
    /\ resp.config = service.config
    /\ resp.first_running_at = service.first_running_at
    /\ resp.aggregate_status = Aggregate(service).agg_status
    /\ resp.aggregate_mode = Aggregate(service).agg_mode

\* C16: the response a read returns is the one of the service as some
\* completed mutation left it, and that mutation is not older than the last
\* one that had returned when the read began.
BoundedStaleness ==
    \A c \in Readers :
        ret[c].kind = "response"
            => \E j \in 1..Len(written) :
                   /\ j >= seen[c]
                   /\ ResponseOf(ret[c].value, written[j])

\* C16 witness: two mutations that left different workers had returned when
\* the read began, and the read returned the response of the second.
BoundedStalenessWitness ==
    \E c \in Readers :
        /\ ret[c].kind = "response"
        /\ seen[c] = 2
        /\ Len(written) = 2
        /\ written[1].workers # written[2].workers
        /\ ResponseOf(ret[c].value, written[2])

\* Reader c returns the list of the services.
ListReturns(c) ==
    /\ ListServices(c) \/ ListResponses(c)
    /\ ret'[c].kind = "list"

\* Service n has no cache entry, or one that does not validate.
CacheLacks(n) == n \notin DOMAIN responses \/ ~ValidResponse(responses[n])

\* C26: the list of the services has exactly one response for every service
\* with a record in the store; a service whose cache entry is missing or
\* does not validate is in the list with the response computed from its
\* record.
ListsEveryService ==
    [][\A c \in Readers :
           ListReturns(c)
               => /\ DOMAIN ret'[c].value = DOMAIN services
                  /\ \A n \in DOMAIN services \cap DOMAIN ret'[c].value :
                         CacheLacks(n)
                             => ResponseOf(ret'[c].value[n], services[n])]_vars

\* C27: in every response served to a reader uptime is absent exactly when
\* first_running_at of the service is unset, and otherwise is the time at
\* which the read is served minus first_running_at, under every policy and
\* for a response from the cache as for a recomputed one.
UptimeAtRead ==
    [][\A c \in Readers :
           (ServiceGetReturns(c) /\ ret'[c].kind = "response")
               => LET resp == ret'[c].value
                  IN  /\ resp.uptime = None <=> resp.first_running_at = None
                      /\ resp.first_running_at # None
                             => resp.uptime = clock - resp.first_running_at]_vars

\* Reader c returns the response of a service from its cache entry.
CacheHit(c) == ServiceGetResponse(c) /\ ret'[c].kind = "response"

\* Two responses with the same computed fields.
SameComputed(a, b) ==
    /\ a.timestamp_now = b.timestamp_now
    /\ a.last_checked_at = b.last_checked_at
    /\ a.since_last_check = b.since_last_check
    /\ a.uptime = b.uptime
    /\ a.aggregate_status = b.aggregate_status
    /\ a.aggregate_mode = b.aggregate_mode

\* The cache entry of service s is new or another one after the step.
EntryWritten(s) ==
    /\ s \in DOMAIN responses'
    /\ s \notin DOMAIN responses \/ responses'[s] # responses[s]

\* C31: a read of a service with a valid cache entry returns the entry as
\* the last mutation of the service wrote it, with server_uptime_seconds
\* alone set anew: a valid entry is only ever written by a mutation of its
\* service, and two reads of the service without a mutation in between
\* return the same timestamp_now, last_checked_at, since_last_check, uptime,
\* aggregate_status and aggregate_mode.
CachedReadUnchanged ==
    [][/\ \A s \in ServiceNames :
              (EntryWritten(s) /\ ValidResponse(responses'[s]))
                  => \E w \in Writers :
                         /\ pc[w] \in {"uw_cache", "uc_cache"}
                         /\ arg[w].service_name = s
       /\ \A c \in Readers :
              CacheHit(c) =>
                  LET resp == ret'[c].value
                  IN  /\ resp.name \in DOMAIN responses
                      /\ ValidResponse(responses[resp.name])
                      /\ resp = [responses[resp.name] EXCEPT
                                     !.server_uptime_seconds =
                                         resp.server_uptime_seconds]
                      /\ (/\ ret[c].kind = "response"
                          /\ ret[c].value.name = resp.name
                          /\ seen[c] = Len(written))
                         => SameComputed(ret[c].value, resp)]_vars

\* C31 witness: a read at time 2 has returned the entry written at time 1:
\* timestamp_now 1 and uptime 0 as written, server_uptime_seconds of the
\* read.
CachedReadUnchangedWitness ==
    \E c \in Readers :
        /\ ret[c].kind = "response"
        /\ clock = 2
        /\ "db" \in DOMAIN responses
        /\ ValidResponse(responses["db"])
        /\ responses["db"].timestamp_now = 1
        /\ responses["db"].uptime = 0
        /\ ret[c].value.timestamp_now = 1
        /\ ret[c].value.uptime = 0
        /\ ret[c].value.server_uptime_seconds = 1
        /\ responses["db"].server_uptime_seconds = None

\* ------------------------------------------------------------------------
\* Properties of processes without the store (specification SpecStore)
\* ------------------------------------------------------------------------

\* C17: without the UltraDict package no process gets a store: every start
\* and every call of a storage function or registry operation ends with the
\* RuntimeError, nothing is stored and no guarded section is entered.
StoreUnavailableFails ==
    ~ultraDict
        => /\ services = EmptyDict
           /\ responses = EmptyDict
           /\ lockOwner = NoCaller
           /\ \A c \in Callers :
                  /\ pc[c] \in {"start", "failed"}
                  /\ ret[c].kind \in {"none", "RuntimeError"}
                  /\ pc[c] = "failed" => ret[c].kind = "RuntimeError"

\* C17 witness: without the package both processes failed to start, and a
\* call of _store_update_worker in one and of set_value in the other ended
\* with the RuntimeError.
StoreUnavailableFailsWitness ==
    /\ ~ultraDict
    /\ \A c \in Callers : ret[c].kind = "RuntimeError"
    /\ ret["p1"].value = "_store_update_worker"
    /\ ret["p2"].value = "set_value"
    /\ pc = [c \in Callers |-> "failed"]
    /\ ops = 2

\* ------------------------------------------------------------------------
\* Properties of the bearer check (specification SpecAuth)
\* ------------------------------------------------------------------------

\* The credential is a bearer credential that carries the key.
BearsKey(creds, key) ==
    /\ creds.scheme \in {"Bearer", "bearer"}
    /\ creds.credentials = key

\* C18: with a key configured, a registry operation begins only for a
\* request that bears the key, and a request that does not is answered
\* Unauthorized in a step that leaves services and responses as they were;
\* no request is answered Unauthorized when it bears the key or when no key
\* is configured; a read is never answered Unauthorized.
AuthContract ==
    [][/\ \A c \in Writers :
              /\ (pc[c] = "idle" /\ pc'[c] # "idle")
                 => expected = "" \/ BearsKey(cred'[c], expected)
              /\ (pc[c] = "idle" /\ ops' = ops + 1 /\ cred'[c] # cred[c]
                  /\ expected # "" /\ ~BearsKey(cred'[c], expected))
                 => /\ ret'[c] = Unauthorized
                    /\ pc'[c] = "idle"
                    /\ services' = services
                    /\ responses' = responses
              /\ ret'[c].kind = "unauthorized"
                 => expected # "" /\ ~BearsKey(cred'[c], expected)
       /\ (services' # services \/ responses' # responses)
          => \E c \in Writers :
                 /\ pc[c] # "idle"
                 /\ expected = "" \/ BearsKey(cred[c], expected)
       /\ \A c \in Readers :
              /\ ret'[c].kind # "unauthorized"
              /\ cred'[c] = NoCredentials]_vars

\* C18 witness: with a key configured, a request that bore it has written
\* a worker, a request with another token was answered Unauthorized, and a
\* read without credentials returned the response.
AuthContractWitness ==
    /\ expected = "s3cret"
    /\ ret["p1"] = Unauthorized
    /\ cred["p1"].credentials = "guess"
    /\ "db" \in DOMAIN services
    /\ Len(services["db"].workers) = 1
    /\ ret["p2"].kind = "response"
    /\ cred["p2"] = NoCredentials

\* ------------------------------------------------------------------------
\* Properties of the lock with raising sections (specification SpecRaise)
\* ------------------------------------------------------------------------

\* C19: the lock is held only by a caller that is inside its guarded
\* section; once every call has left its section, by return or by an
\* exception, the lock is free and a caller waiting for it can enter.
LockReleasedOnExit ==
    /\ lockOwner # NoCaller => InSection(lockOwner)
    /\ (\A c \in Callers : ~InSection(c))
       => /\ lockOwner = NoCaller
          /\ \A c \in Callers :
                 pc[c] = "uw_lock" => ENABLED UpdateWorkerLock(c)

\* C19 witness: the first call, of p1, raised after it had written the
\* services and before it wrote the cache, and the second, of p2, has
\* entered the section after it.
LockReleasedOnExitWitness ==
    /\ pc["p1"] = "idle"
    /\ ops = 2
    /\ "db" \in DOMAIN services
    /\ "db" \notin DOMAIN responses
    /\ lockOwner = "p2"
    /\ pc["p2"] = "uw_write"

\* ------------------------------------------------------------------------
\* Progress (specification SpecLive)
\* ------------------------------------------------------------------------

LoadedWorkers(c) == LoadService(raw[c], arg[c].service_name).workers

\* C25: a report without a worker name is never matched with an entry of
\* the list: the write of each such report makes the list one entry longer
\* and leaves every entry the list had, earlier unnamed ones included, as
\* it was.
UnnamedAppends ==
    [][\A c \in Callers :
          (UpdateWorkerWrite(c) /\ arg[c].worker_name = Unnamed) =>
              /\ Len(svc'[c].workers) = Len(LoadedWorkers(c)) + 1
              /\ \A i \in 1..Len(LoadedWorkers(c)) :
                     svc'[c].workers[i] = LoadedWorkers(c)[i]]_vars

\* ------------------------------------------------------------------------
\* Properties of reports for two services (specification SpecFrame)
\* ------------------------------------------------------------------------

\* The entries of dict d other than that of key k are in e as they are in d.
OthersKept(d, e, k) ==
    \A n \in DOMAIN d \ {k} : n \in DOMAIN e /\ e[n] = d[n]

\* The workers of service s in the store, none when it has no record.
StoredWorkers(s) == IF s \in DOMAIN services THEN services[s].workers ELSE << >>

\* The list after is the list before with the entry of worker w replaced
\* where it was, or appended when there was none; all other entries and
\* their order are kept, and so are retries and last_retry_at of w.
UpsertedIn(before, after, w) ==
    IF \E i \in 1..Len(before) : before[i].worker_name = w
    THEN /\ Len(after) = Len(before)
         /\ \A i \in 1..Len(before) :
                IF before[i].worker_name = w
                THEN /\ after[i].worker_name = w
                     /\ after[i].retries = before[i].retries
                     /\ after[i].last_retry_at = before[i].last_retry_at
                ELSE after[i] = before[i]
    ELSE /\ Len(after) = Len(before) + 1
         /\ \A i \in 1..Len(before) : after[i] = before[i]
         /\ after[Len(after)].worker_name = w

PastStartup(c) == pc[c] \notin {"boot", "su_set"}

\* Process c stores the start time in this step.
StoresStart(c) ==
    /\ pc[c] = "su_set"
    /\ pc'[c] = "su_unlock"
    /\ server_start = None
    /\ server_start' = clock'

\* C30: server_start is written at most once: it changes only in the step
\* of a startup that finds it unset, which stores its time; a startup that
\* finds it set, a read and a mutation leave it alone; and once a process
\* is past its startup the value stays set.
ServerStartOnce ==
    [][/\ server_start' # server_start => \E c \in Callers : StoresStart(c)
       /\ server_start # None => server_start' = server_start
       /\ \A c \in Callers : PastStartup(c)' => server_start' # None]_vars

\* C30 witness: the first process stored its start time 1 and reported a
\* worker at time 2; the second process has run its startup after that and
\* the value is still 1.
ServerStartOnceWitness ==
    /\ pc["p1"] = "idle"
    /\ pc["p2"] = "su_unlock"
    /\ server_start = 1
    /\ clock = 2
    /\ "db" \in DOMAIN services

\* ------------------------------------------------------------------------
\* Properties of the aggregation engine (specification SpecAgg)
\* ------------------------------------------------------------------------

\* The number of workers of the aggregated service with that status.
NumStatus(st) ==
    Cardinality({i \in 1..Len(aggService.workers) :
                     aggService.workers[i].health.status = st})

NumWorkers == Len(aggService.workers)

\* The status of a service that is not OK: ERROR with an ERROR worker,
\* UNKNOWN without.
ErrorOrUnknown == IF NumStatus("error") >= 1 THEN "error" ELSE "unknown"

\* C6: under policy all and with at least one worker, aggregate_status is OK
\* exactly when every worker is OK; otherwise it is ERROR when a worker is
\* ERROR and UNKNOWN when none is.
AllPolicyStatus ==
    (aggService.config.policy = "all" /\ NumWorkers >= 1) =>
        /\ aggResponse.aggregate_status = "ok" <=> NumStatus("ok") = NumWorkers
        /\ aggResponse.aggregate_status # "ok" =>
               aggResponse.aggregate_status = ErrorOrUnknown

\* C6 witness (scenario A): policy all, w1 OK/running and w2 ERROR/running
\* give ERROR and RUNNING.
AllPolicyStatusWitness ==
    /\ aggService.config.policy = "all"
    /\ NumWorkers = 2
    /\ aggService.workers[1].health = ServiceStatusHealth("running", "ok")
    /\ aggService.workers[2].health = ServiceStatusHealth("running", "error")
    /\ aggResponse.aggregate_status = "error"
    /\ aggResponse.aggregate_mode = "running"

\* C7: under policy any, for every worker list, aggregate_status is OK
\* exactly when at least one worker is OK; otherwise it is ERROR when a
\* worker is ERROR and UNKNOWN when none is.
AnyPolicyStatus ==
    aggService.config.policy = "any" =>
        /\ aggResponse.aggregate_status = "ok" <=> NumStatus("ok") >= 1
        /\ aggResponse.aggregate_status # "ok" =>
               aggResponse.aggregate_status = ErrorOrUnknown

\* C7 witness (scenario B): policy any, w1 ERROR/stopped and w2 OK/running
\* give OK and RUNNING.
AnyPolicyStatusWitness ==
    /\ aggService.config.policy = "any"
    /\ NumWorkers = 2
    /\ aggService.workers[1].health = ServiceStatusHealth("stopped", "error")
    /\ aggService.workers[2].health = ServiceStatusHealth("running", "ok")
    /\ aggResponse.aggregate_status = "ok"
    /\ aggResponse.aggregate_mode = "running"

\* C8: under policy majority, for every worker count N >= 1, odd or even,
\* aggregate_status is OK exactly when twice the OK workers exceed N, ERROR
\* exactly when twice the ERROR workers exceed N, and UNKNOWN otherwise.
MajorityPolicyStatus ==
    (aggService.config.policy = "majority" /\ NumWorkers >= 1) =>
        /\ aggResponse.aggregate_status = "ok" <=> 2 * NumStatus("ok") > NumWorkers
        /\ aggResponse.aggregate_status = "error"
               <=> 2 * NumStatus("error") > NumWorkers
        /\ aggResponse.aggregate_status \in {"ok", "error", "unknown"}

\* C9: every service has a response with the fields of the service; when
\* the aggregation raises, as the median of an even number of workers under
\* policy majority does, aggregate_status, aggregate_mode and last_checked_at
\* are UNKNOWN, UNKNOWN and absent together; and a response of a service
\* with workers never lacks last_checked_at while it has a status or a mode.
AggregationDegrades ==
    /\ aggResponse.name = aggService.name
    /\ aggResponse.config = aggService.config
    /\ aggResponse.workers = aggService.workers
    /\ aggResponse.aggregate_status \in ServiceHealth
    /\ aggResponse.aggregate_mode \in ServiceMode
    /\ (/\ aggService.config.policy = "majority"
        /\ NumWorkers >= 1
        /\ NumWorkers % 2 = 0)
       => /\ aggResponse.aggregate_status = "unknown"
          /\ aggResponse.aggregate_mode = "unknown"
          /\ aggResponse.last_checked_at = None
          /\ aggResponse.since_last_check = None
    /\ (NumWorkers >= 1 /\ aggResponse.last_checked_at = None)
       => /\ aggResponse.aggregate_status = "unknown"
          /\ aggResponse.aggregate_mode = "unknown"
          /\ aggResponse.since_last_check = None

\* C9 witness: policy majority with two workers, both OK and running: the
\* median raises and the response has UNKNOWN, UNKNOWN and no timestamp.
AggregationDegradesWitness ==
    /\ aggService.config.policy = "majority"
    /\ NumWorkers = 2
    /\ \A i \in 1..2 :
           aggService.workers[i].health = ServiceStatusHealth("running", "ok")
    /\ aggResponse.aggregate_status = "unknown"
    /\ aggResponse.aggregate_mode = "unknown"
    /\ aggResponse.last_checked_at = None

\* The number of workers of the aggregated service in that mode.
NumMode(m) ==
    Cardinality({i \in 1..Len(aggService.workers) :
                     aggService.workers[i].health.mode = m})

\* C21: under policy all and with at least one worker, aggregate_mode is
\* RUNNING exactly when every worker is RUNNING; otherwise it is STARTING
\* with a STARTING worker, else STOPPING with a STOPPING worker, else STOPPED
\* when every worker is STOPPED, else FAILED with a FAILED worker, else
\* UNKNOWN.
AllPolicyMode ==
    (aggService.config.policy = "all" /\ NumWorkers >= 1) =>
        LET mode == aggResponse.aggregate_mode
        IN  /\ mode = "running" <=> NumMode("running") = NumWorkers
            /\ mode # "running" =>
                   \/ mode = "starting" /\ NumMode("starting") >= 1
                   \/ /\ mode = "stopping"
                      /\ NumMode("starting") = 0
                      /\ NumMode("stopping") >= 1
                   \/ /\ mode = "stopped"
                      /\ NumMode("stopped") = NumWorkers
                   \/ /\ mode = "failed"
                      /\ NumMode("starting") = 0
                      /\ NumMode("stopping") = 0
                      /\ NumMode("stopped") < NumWorkers
                      /\ NumMode("failed") >= 1
                   \/ /\ mode = "unknown"
                      /\ NumMode("starting") = 0
                      /\ NumMode("stopping") = 0
                      /\ NumMode("stopped") < NumWorkers
                      /\ NumMode("failed") = 0

\* C21 witness: policy all, one worker running and one stopped: not all
\* run, none starts, stops or has failed, not all are stopped: UNKNOWN.
AllPolicyModeWitness ==
    /\ aggService.config.policy = "all"
    /\ NumWorkers = 2
    /\ aggService.workers[1].health.mode = "running"
    /\ aggService.workers[2].health.mode = "stopped"
    /\ aggResponse.aggregate_mode = "unknown"

\* The order in which policy any looks for a mode.
ModeOrder == <<"running", "starting", "stopping", "stopped", "failed">>

\* C22: under policy any and with at least one worker, aggregate_mode is
\* the first mode of the order RUNNING, STARTING, STOPPING, STOPPED, FAILED
\* that some worker has, and UNKNOWN when no worker has one of them.
AnyPolicyMode ==
    (aggService.config.policy = "any" /\ NumWorkers >= 1) =>
        LET mode == aggResponse.aggregate_mode
        IN  \/ \E k \in 1..Len(ModeOrder) :
                   /\ mode = ModeOrder[k]
                   /\ NumMode(ModeOrder[k]) >= 1
                   /\ \A j \in 1..(k - 1) : NumMode(ModeOrder[j]) = 0
            \/ /\ mode = "unknown"
               /\ \A k \in 1..Len(ModeOrder) : NumMode(ModeOrder[k]) = 0

\* C22 witness: policy any, one worker failed and one stopping: STOPPING.
AnyPolicyModeWitness ==
    /\ aggService.config.policy = "any"
    /\ NumWorkers = 2
    /\ aggService.workers[1].health.mode = "failed"
    /\ aggService.workers[2].health.mode = "stopping"
    /\ aggResponse.aggregate_mode = "stopping"

\* C23: under policy majority and with at least one worker, whether their
\* number is odd or even, aggregate_mode is the mode most workers have, and
\* among several such modes the one that occurs first in the workers list.
MajorityPolicyMode ==
    (aggService.config.policy = "majority" /\ NumWorkers >= 1) =>
        \E i \in 1..NumWorkers :
            LET mode == aggService.workers[i].health.mode
            IN  /\ aggResponse.aggregate_mode = mode
                /\ \A j \in 1..NumWorkers :
                       NumMode(aggService.workers[j].health.mode) <= NumMode(mode)
                /\ \A j \in 1..(i - 1) :
                       NumMode(aggService.workers[j].health.mode) < NumMode(mode)

\* The timestamps of the workers of the aggregated service.
NumCheckedBefore(t) ==
    Cardinality({i \in 1..NumWorkers : aggService.workers[i].checked_at < t})

NumCheckedAfter(t) ==
    Cardinality({i \in 1..NumWorkers : aggService.workers[i].checked_at > t})

IsCheckedAt(t) == \E i \in 1..NumWorkers : aggService.workers[i].checked_at = t

====
